---------------------------- MODULE Spec2Model ----------------------------
(***************************************************************************)
(* A model of DialogueComposer (src/main.py): the session state            *)
(* (characters, dialogue_history, scene_context), its public operations    *)
(* and the text analyses they call.                                        *)
(*                                                                         *)
(* Texts are strings, handled character by character (Len, SubSeq, \o),    *)
(* so that splitting, stripping, lower-casing and substring search are     *)
(* computed the way the Python code computes them.  Python floats are      *)
(* modelled as exact rationals <<numerator, denominator>> in lowest terms  *)
(* with a positive denominator.  The timestamp field of DialogueLine is    *)
(* wall-clock time and is not part of the model.                           *)
(***************************************************************************)
EXTENDS Integers, Sequences, FiniteSets, TLC

VARIABLES characters, dialogue_history, scene_context, pc, export_loop,
          threads, ret

vars == <<characters, dialogue_history, scene_context, pc, export_loop,
          threads, ret>>

store == <<characters, dialogue_history, scene_context>>

(* An optional value: None, or Some(x).  Python's None and its empty list  *)
(* and dict are all falsy, and each place below that tests one accepts the *)
(* others.                                                                 *)
None == <<>>
Some(x) == <<x>>

-----------------------------------------------------------------------------
(* Exact rational arithmetic (the values Python holds in floats).          *)

Abs(n) == IF n < 0 THEN -n ELSE n

RECURSIVE GCD(_, _)
GCD(a, b) == IF b = 0 THEN a ELSE GCD(b, a % b)

Rat(n, d) ==
    LET g == GCD(Abs(n), Abs(d))
        s == IF d < 0 THEN -1 ELSE 1
    IN  <<(s * n) \div g, (s * d) \div g>>

RInt(n)    == <<n, 1>>
RAdd(x, y) == Rat(x[1] * y[2] + y[1] * x[2], x[2] * y[2])
RSub(x, y) == Rat(x[1] * y[2] - y[1] * x[2], x[2] * y[2])
RMul(x, y) == Rat(x[1] * y[1], x[2] * y[2])
RDiv(x, y) == Rat(x[1] * y[2], x[2] * y[1])
RAbs(x)    == <<Abs(x[1]), x[2]>>
RLess(x, y) == x[1] * y[2] < y[1] * x[2]
RLeq(x, y)  == x[1] * y[2] <= y[1] * x[2]

RECURSIVE SumSeq(_)
SumSeq(s) == IF s = <<>> THEN 0 ELSE Head(s) + SumSeq(Tail(s))

(* statistics.mean of a non-empty list of integers *)
Mean(lengths) == Rat(SumSeq(lengths), Len(lengths))

Range(s) == {s[i] : i \in 1..Len(s)}

-----------------------------------------------------------------------------
(* Python string primitives.                                               *)

CharAt(s, i) == SubSeq(s, i, i)

UpperChars == "ABCDEFGHIJKLMNOPQRSTUVWXYZ"
LowerChars == "abcdefghijklmnopqrstuvwxyz"

IsUpperChar(c) == \E i \in 1..26 : CharAt(UpperChars, i) = c
IsLowerChar(c) == \E i \in 1..26 : CharAt(LowerChars, i) = c

LowerChar(c) ==
    IF IsUpperChar(c)
    THEN CharAt(LowerChars, CHOOSE i \in 1..26 : CharAt(UpperChars, i) = c)
    ELSE c

UpperChar(c) ==
    IF IsLowerChar(c)
    THEN CharAt(UpperChars, CHOOSE i \in 1..26 : CharAt(LowerChars, i) = c)
    ELSE c

(* str.lower() *)
RECURSIVE lower(_)
lower(s) == IF s = "" THEN "" ELSE LowerChar(Head(s)) \o lower(Tail(s))

(* str.isspace() of one character *)
Whitespace == {" ", "\t", "\n", "\r"}

(* the character class [.!?] *)
Terminal == {".", "!", "?"}

(* `sub in s` *)
Contains(s, sub) ==
    \E i \in 1..(Len(s) - Len(sub) + 1) : SubSeq(s, i, i + Len(sub) - 1) = sub

StartsAt(s, sub, i) ==
    /\ i + Len(sub) - 1 <= Len(s)
    /\ SubSeq(s, i, i + Len(sub) - 1) = sub

(* str.count(sub): non-overlapping occurrences, scanning from the left *)
RECURSIVE CountFrom(_, _, _)
CountFrom(s, sub, i) ==
    IF i + Len(sub) - 1 > Len(s) THEN 0
    ELSE IF StartsAt(s, sub, i) THEN 1 + CountFrom(s, sub, i + Len(sub))
    ELSE CountFrom(s, sub, i + 1)

Count(s, sub) == CountFrom(s, sub, 1)

(* str.strip() *)
RECURSIVE LStrip(_)
LStrip(s) ==
    IF s # "" /\ Head(s) \in Whitespace THEN LStrip(Tail(s)) ELSE s

RECURSIVE RStrip(_)
RStrip(s) ==
    IF s # "" /\ CharAt(s, Len(s)) \in Whitespace
    THEN RStrip(SubSeq(s, 1, Len(s) - 1)) ELSE s

Strip(s) == RStrip(LStrip(s))

(* len(s.split()): the number of maximal runs of non-whitespace *)
RECURSIVE WordsFrom(_, _, _)
WordsFrom(s, i, inWord) ==
    IF i > Len(s) THEN 0
    ELSE IF CharAt(s, i) \in Whitespace THEN WordsFrom(s, i + 1, FALSE)
    ELSE (IF inWord THEN 0 ELSE 1) + WordsFrom(s, i + 1, TRUE)

WordCount(s) == WordsFrom(s, 1, FALSE)

(* re.split(r'[.!?]+', text): the pieces between maximal runs of terminal  *)
(* punctuation, the leading and trailing (possibly empty) pieces included. *)
RECURSIVE SplitFrom(_, _, _, _)
SplitFrom(s, i, cur, inRun) ==
    IF i > Len(s) THEN <<cur>>
    ELSE IF CharAt(s, i) \in Terminal
         THEN IF inRun THEN SplitFrom(s, i + 1, "", TRUE)
              ELSE <<cur>> \o SplitFrom(s, i + 1, "", TRUE)
         ELSE SplitFrom(s, i + 1, cur \o CharAt(s, i), FALSE)

SplitTerminal(text) == SplitFrom(text, 1, "", FALSE)

(* [s.strip() for s in re.split(r'[.!?]+', text) if s.strip()] *)
RECURSIVE KeepNonBlank(_)
KeepNonBlank(pieces) ==
    IF pieces = <<>> THEN <<>>
    ELSE IF Strip(Head(pieces)) # ""
         THEN <<Strip(Head(pieces))>> \o KeepNonBlank(Tail(pieces))
         ELSE KeepNonBlank(Tail(pieces))

Sentences(text) == KeepNonBlank(SplitTerminal(text))

(* [len(s.split()) for s in sentences] *)
SentenceLengths(text) ==
    LET ss == Sentences(text) IN [i \in 1..Len(ss) |-> WordCount(ss[i])]

-----------------------------------------------------------------------------
(* The pattern tables loaded in __init__.  Python dicts keep insertion     *)
(* order, so a dict that is iterated is a sequence of <<key, value>>.      *)

cliche_patterns ==
    <<"think outside the box",
      "loose cannon",
      "perfect storm",
      "can of worms",
      "what goes around comes around",
      "dead as a doornail",
      "plenty of fish in the sea",
      "ignorance is bliss",
      "like a kid in a candy store",
      "you can't judge a book by its cover",
      "take the tiger by the tail",
      "every rose has its thorn",
      "good things come to those who wait",
      "in the nick of time",
      "if only walls could talk",
      "the apple doesn't fall far from the tree",
      "the pot calling the kettle black",
      "the grass is always greener on the other side",
      "beating a dead horse">>

cliche_alternatives ==
    ("think outside the box" :>
        <<"find a new angle",
          "break the pattern",
          "try something unexpected",
          "look at it differently",
          "challenge the assumptions">>) @@
    ("loose cannon" :>
        <<"unpredictable force",
          "wild card",
          "walking disaster",
          "chaos magnet",
          "human hurricane">>) @@
    ("perfect storm" :>
        <<"worst-case scenario",
          "everything going wrong at once",
          "complete disaster",
          "catastrophic alignment",
          "nightmare convergence">>) @@
    ("can of worms" :>
        <<"messy situation",
          "complicated problem",
          "tangled mess",
          "rabbit hole",
          "minefield">>) @@
    ("what goes around comes around" :>
        <<"karma catches up",
          "actions have consequences",
          "the universe balances things out",
          "payback time",
          "justice finds a way">>) @@
    ("dead as a doornail" :>
        <<"completely lifeless",
          "stone cold",
          "gone for good",
          "finished",
          "beyond saving">>) @@
    ("plenty of fish in the sea" :>
        <<"other opportunities out there",
          "not the only option",
          "more chances ahead",
          "different paths to explore",
          "other doors will open">>) @@
    ("ignorance is bliss" :>
        <<"sometimes not knowing is better",
          "knowledge can be a burden",
          "the truth hurts",
          "some things are better left unknown",
          "reality can be harsh">>) @@
    ("like a kid in a candy store" :>
        <<"absolutely thrilled",
          "overwhelmed with excitement",
          "eyes wide with wonder",
          "spoiled for choice",
          "drunk on possibilities">>) @@
    ("you can't judge a book by its cover" :>
        <<"appearances can be deceiving",
          "there's more than meets the eye",
          "looks don't tell the whole story",
          "first impressions can be wrong",
          "scratch the surface">>) @@
    ("in the nick of time" :>
        <<"just barely made it",
          "cutting it close",
          "with seconds to spare",
          "at the last possible moment",
          "pulled it off somehow">>) @@
    ("beating a dead horse" :>
        <<"pointless argument",
          "wasted effort",
          "going in circles",
          "talking to a wall",
          "spitting in the wind">>)

trope_database ==
    <<<<"villain_monologue",
        <<"you see, my plan was",
          "before you die",
          "you cannot stop me",
          "i have already won">>>>,
      <<"exposition_dump",
        <<"as you know",
          "remember when we",
          "let me tell you about">>>>,
      <<"romantic_tension",
        <<"you drive me crazy",
          "i hate that i love you",
          "we can't keep doing this">>>>,
      <<"conflict_escalation",
        <<"you always do this",
          "here we go again",
          "typical">>>>>>

tone_keywords ==
    <<<<"angry",
        <<"furious", "rage", "damn", "hell", "angry", "mad", "pissed", "livid", "hate">>>>,
      <<"sad",
        <<"tears", "crying", "hurt", "broken", "lost", "empty", "alone", "depressed", "sob">>>>,
      <<"happy",
        <<"amazing", "wonderful", "fantastic", "love", "joy", "excited", "thrilled", "delighted">>>>,
      <<"fearful",
        <<"scared", "terrified", "afraid", "nightmare", "panic", "dangerous", "worried", "anxious">>>>,
      <<"sarcastic",
        <<"oh great", "fantastic", "wonderful", "sure", "right", "obviously", "brilliant", "perfect">>>>,
      <<"romantic",
        <<"love", "heart", "beautiful", "forever", "soul", "kiss", "darling", "honey", "sweetheart">>>>,
      <<"mysterious",
        <<"secret", "hidden", "shadow", "whisper", "unknown", "strange", "curious", "enigma">>>>,
      <<"aggressive",
        <<"fight", "kill", "destroy", "attack", "war", "battle", "crush", "defeat">>>>,
      <<"defensive",
        <<"told you", "already", "didn't do", "wasn't me", "innocent", "prove it">>>>>>

HasAlternatives(pattern) == pattern \in DOMAIN cliche_alternatives

(* self.cliche_alternatives.get(pattern, []) *)
BaseAlternatives(pattern) ==
    IF HasAlternatives(pattern) THEN cliche_alternatives[pattern] ELSE <<>>

-----------------------------------------------------------------------------
(* Detection and classification.                                           *)

(* re.search(pattern, text_lower) for each pattern, in table order; every  *)
(* pattern is a literal phrase, so the search is a substring test.         *)
RECURSIVE DetectFrom(_, _)
DetectFrom(text_lower, k) ==
    IF k > Len(cliche_patterns) THEN <<>>
    ELSE (IF Contains(text_lower, cliche_patterns[k])
          THEN <<[pattern |-> cliche_patterns[k], severity |-> "medium"]>>
          ELSE <<>>) \o DetectFrom(text_lower, k + 1)

_detect_cliches(text) == DetectFrom(lower(text), 1)

(* re.finditer(pattern, text_lower): the non-overlapping matches from the  *)
(* left, each giving text[start:end] in the original case.                 *)
RECURSIVE MatchesFrom(_, _, _, _)
MatchesFrom(text, text_lower, pattern, i) ==
    IF i + Len(pattern) - 1 > Len(text_lower) THEN <<>>
    ELSE IF StartsAt(text_lower, pattern, i)
         THEN <<[original_phrase |-> SubSeq(text, i, i + Len(pattern) - 1),
                 pattern |-> pattern]>>
              \o MatchesFrom(text, text_lower, pattern, i + Len(pattern))
         ELSE MatchesFrom(text, text_lower, pattern, i + 1)

RECURSIVE DetectedFrom(_, _)
DetectedFrom(text, k) ==
    IF k > Len(cliche_patterns) THEN <<>>
    ELSE MatchesFrom(text, lower(text), cliche_patterns[k], 1)
         \o DetectedFrom(text, k + 1)

(* detected_cliches of generate_dialogue_alternatives *)
detected_cliches(text) == DetectedFrom(text, 1)

RECURSIVE FlattenTropes(_, _, _)
FlattenTropes(text_lower, k, j) ==
    IF k > Len(trope_database) THEN <<>>
    ELSE IF j > Len(trope_database[k][2])
         THEN FlattenTropes(text_lower, k + 1, 1)
         ELSE (IF Contains(text_lower, trope_database[k][2][j])
               THEN <<[trope |-> trope_database[k][1],
                       pattern |-> trope_database[k][2][j],
                       severity |-> IF trope_database[k][1] = "romantic_tension"
                                    THEN "low" ELSE "medium"]>>
               ELSE <<>>) \o FlattenTropes(text_lower, k, j + 1)

_detect_tropes(text) == FlattenTropes(lower(text), 1, 1)

(* sum(1 for keyword in keywords if keyword in text_lower) *)
KeywordScore(keywords, text_lower) ==
    Cardinality({j \in 1..Len(keywords) : Contains(text_lower, keywords[j])})

(* max(tone_scores, key=tone_scores.get) over the tones with a positive    *)
(* score, in the order they were inserted: the first maximal one is kept. *)
(* best = <<tone, score>>, <<"neutral", 0>> while tone_scores is empty.    *)
RECURSIVE ToneFrom(_, _, _)
ToneFrom(text_lower, k, best) ==
    IF k > Len(tone_keywords) THEN best[1]
    ELSE LET score == KeywordScore(tone_keywords[k][2], text_lower)
         IN  ToneFrom(text_lower, k + 1,
                      IF score > 0 /\ score > best[2]
                      THEN <<tone_keywords[k][1], score>> ELSE best)

(* _analyze_tone keeping the last of the tones with the highest score *)
RECURSIVE ToneFromLast(_, _, _)
ToneFromLast(text_lower, k, best) ==
    IF k > Len(tone_keywords) THEN best[1]
    ELSE LET score == KeywordScore(tone_keywords[k][2], text_lower)
         IN  ToneFromLast(text_lower, k + 1,
                          IF score > 0 /\ score >= best[2]
                          THEN <<tone_keywords[k][1], score>> ELSE best)

AnalyzeToneLastMaximal(text) == ToneFromLast(lower(text), 1, <<"neutral", 0>>)

_analyze_tone(text) == ToneFrom(lower(text), 1, <<"neutral", 0>>)

-----------------------------------------------------------------------------
(* Pacing.                                                                 *)

ideal_length == 8

Half == Rat(1, 2)

(* _calculate_pacing_score returning 0 where there is no sentence *)
PacingScoreZeroDefault(text) ==
    LET lengths == SentenceLengths(text) IN
    IF lengths = <<>> THEN RInt(0)
    ELSE LET variety == Rat(Cardinality(Range(lengths)), Len(lengths))
             length_score ==
                 RSub(RInt(1),
                      RDiv(RAbs(RSub(Mean(lengths), RInt(8))), RInt(8)))
         IN  RAdd(RMul(variety, Rat(6, 10)), RMul(length_score, Rat(4, 10)))

_calculate_pacing_score(text) ==
    LET lengths == SentenceLengths(text) IN
    IF lengths = <<>> THEN Half
    ELSE LET variety == Rat(Cardinality(Range(lengths)), Len(lengths))
             avg_length == Mean(lengths)
             length_score ==
                 RSub(RInt(1),
                      RDiv(RAbs(RSub(avg_length, RInt(ideal_length))),
                           RInt(ideal_length)))
         IN  RAdd(RMul(variety, Rat(6, 10)), RMul(length_score, Rat(4, 10)))

_analyze_pacing(text) ==
    LET lengths == SentenceLengths(text) IN
    [sentence_count |-> Len(lengths),
     avg_sentence_length |-> IF lengths # <<>> THEN Mean(lengths) ELSE RInt(0),
     rhythm_variety |-> Cardinality(Range(lengths)),
     interruptions |-> Count(text, "--") + Count(text, "..."),
     emphasis |-> Count(text, "!") + Count(text, "?"),
     pacing_score |-> _calculate_pacing_score(text)]

-----------------------------------------------------------------------------
(* Inputs of the operations, and the bounds of the model.                  *)

(* dialogue_history grows without limit; the model stops at MaxHistory.    *)
MaxHistory == 3

Names == {"Sarah", "Tommy"}

Texts ==
    {"...",
     "I hate you.",
     "Look, you can't judge a book by its cover! I love what you did here!"}

(* the texts suggest_improved_dialogue is asked about *)
SuggestTexts ==
    {"Look, you can't judge a book by its cover! I love what you did here!"}

Contexts == {"deflecting"}

(* add_character's default voice_patterns *)
DefaultVoice ==
    [formality |-> Rat(5, 10), verbosity |-> Rat(5, 10),
     emotion_intensity |-> Rat(5, 10), interruption_tendency |-> Rat(3, 10),
     question_frequency |-> Rat(2, 10)]

MartinezVoice ==
    [formality |-> Rat(8, 10), verbosity |-> Rat(4, 10),
     emotion_intensity |-> Rat(2, 10), interruption_tendency |-> Rat(1, 10),
     question_frequency |-> Rat(7, 10)]

VoiceDescriptions == {None}

Scenes ==
    {[setting |-> "Police station interrogation room", mood |-> "tense",
      tension |-> 8, characters |-> <<"Sarah", "Tommy">>, plot_points |-> None],
     [setting |-> "Harbour cafe", mood |-> "romantic",
      tension |-> 7, characters |-> <<"Sarah">>,
      plot_points |-> <<"Time is running out">>]}

(* What the analyses that read the text alone give for a text; they are   *)
(* tabulated once over Texts, and the operations look the results up.      *)
TextAnalysis(text) ==
    [word_count |-> WordCount(text),
     sentence_lengths |-> SentenceLengths(text),
     cliches_detected |-> _detect_cliches(text),
     tropes_detected |-> _detect_tropes(text),
     emotional_tone |-> _analyze_tone(text),
     pacing_analysis |-> _analyze_pacing(text),
     detected_cliches |-> detected_cliches(text)]

(* the lines analysed in the sessions that vary the scene: one of each of  *)
(* the tones neutral, angry, happy and romantic                            *)
SceneTexts == {"...", "I hate you.", "What a wonderful day!", "My heart."}

(* lines in which a cliche occurs once, twice and three times *)
ClicheTexts ==
    {"Ignorance is bliss.",
     "Ignorance is bliss. Ignorance is bliss!",
     "A loose cannon, a loose cannon, a LOOSE CANNON in a perfect storm."}

Tabulated ==
    [text \in Texts \cup SceneTexts \cup ClicheTexts |-> TextAnalysis(text)]

-----------------------------------------------------------------------------
(* The session state and the operations on it.                             *)

Character(name, voice_patterns) ==
    [name |-> name, voice_patterns |-> voice_patterns,
     emotional_range |-> <<>>, speech_quirks |-> <<>>,
     dialogue_count |-> 0, avg_sentence_length |-> RInt(0),
     vocabulary_complexity |-> RInt(0)]

DialogueLine(speaker, text, context, emotional_tone, scene_position) ==
    [speaker |-> speaker, text |-> text, context |-> context,
     emotional_tone |-> emotional_tone, scene_position |-> scene_position]

SceneContext(setting, mood, tension, chars, plot_points) ==
    [setting |-> setting, mood |-> mood, tension_level |-> tension,
     characters_present |-> chars,
     plot_points |-> IF plot_points = None THEN <<>> ELSE plot_points]

Registered == DOMAIN characters

(* dict assignment: characters[name] = value *)
Put(chars, name, value) ==
    [n \in DOMAIN chars \cup {name} |-> IF n = name THEN value ELSE chars[n]]

_check_character_consistency(speaker, text) ==
    IF speaker \notin Registered
    THEN [consistent |-> TRUE, established |-> FALSE,
          voice_drift_warnings |-> <<>>]
    ELSE LET lengths == Tabulated[text].sentence_lengths
             current_avg_length ==
                 IF lengths # <<>> THEN Mean(lengths) ELSE RInt(0)
             avg == characters[speaker].avg_sentence_length
             length_diff == RAbs(RSub(current_avg_length, avg))
         IN  [consistent |-> TRUE, established |-> TRUE,
              voice_drift_warnings |->
                  IF RLess(RInt(0), avg) /\ RLess(RInt(3), length_diff)
                  THEN <<length_diff>> ELSE <<>>]

(* the detected cliches for which generate_dialogue_alternatives builds a  *)
(* DialogueAlternative: those whose pattern has base alternatives          *)
RECURSIVE WithAlternatives(_)
WithAlternatives(detected) ==
    IF detected = <<>> THEN <<>>
    ELSE (IF BaseAlternatives(Head(detected).pattern) # <<>>
          THEN <<Head(detected)>> ELSE <<>>)
         \o WithAlternatives(Tail(detected))

generate_dialogue_alternatives(speaker, text) ==
    WithAlternatives(Tabulated[text].detected_cliches)

(* _generate_suggestions without the inner test of the tone: the advisory  *)
(* for every non-neutral tone in a high-tension scene                      *)
GenerateSuggestionsAnyTone(analysis) ==
    (IF analysis.cliches_detected # <<>>
     THEN <<[kind |-> "cliches_found",
             cliche_count |-> Len(analysis.cliches_detected)]>>
     ELSE <<>>)
    \o (IF analysis.dialogue_alternatives # <<>>
        THEN <<[kind |-> "alternatives_provided"]>> ELSE <<>>)
    \o (IF RLess(analysis.pacing_analysis.pacing_score, Rat(4, 10))
        THEN <<[kind |-> "pacing"]>> ELSE <<>>)
    \o (IF /\ scene_context # None
           /\ analysis.emotional_tone # "neutral"
           /\ scene_context[1].tension_level > 7
        THEN <<[kind |-> "tone_mismatch"]>> ELSE <<>>)

_generate_suggestions(analysis) ==
    (IF analysis.cliches_detected # <<>>
     THEN <<[kind |-> "cliches_found",
             cliche_count |-> Len(analysis.cliches_detected)]>>
     ELSE <<>>)
    \o (IF analysis.dialogue_alternatives # <<>>
        THEN <<[kind |-> "alternatives_provided"]>> ELSE <<>>)
    \o (IF RLess(analysis.pacing_analysis.pacing_score, Rat(4, 10))
        THEN <<[kind |-> "pacing"]>> ELSE <<>>)
    \o (IF /\ scene_context # None
           /\ analysis.emotional_tone # "neutral"
           /\ scene_context[1].tension_level > 7
           /\ analysis.emotional_tone \in {"happy", "romantic"}
        THEN <<[kind |-> "tone_mismatch"]>> ELSE <<>>)

(* the analysis dict of analyze_dialogue_line, before the line is stored *)
Analysis(speaker, text) ==
    LET analysis ==
            [speaker |-> speaker,
             text |-> text,
             word_count |-> Tabulated[text].word_count,
             sentence_count |-> Len(Tabulated[text].sentence_lengths),
             cliches_detected |-> Tabulated[text].cliches_detected,
             tropes_detected |-> Tabulated[text].tropes_detected,
             emotional_tone |-> Tabulated[text].emotional_tone,
             character_consistency |->
                 _check_character_consistency(speaker, text),
             pacing_analysis |-> Tabulated[text].pacing_analysis,
             dialogue_alternatives |->
                 generate_dialogue_alternatives(speaker, text)]
    IN  [f \in DOMAIN analysis \cup {"suggestions"} |->
            IF f = "suggestions" THEN _generate_suggestions(analysis)
            ELSE analysis[f]]

(* _update_character_patterns with the count incremented inside           *)
(* `if sentences:`                                                         *)
UpdateOnlyWithSentences(chars, speaker, text) ==
    IF speaker \notin DOMAIN chars THEN chars
    ELSE LET character == chars[speaker]
             total_sentences == character.dialogue_count + 1
             lengths == Tabulated[text].sentence_lengths
         IN  IF lengths = <<>> THEN chars
             ELSE Put(chars, speaker,
                      [character EXCEPT
                          !.dialogue_count = total_sentences,
                          !.avg_sentence_length =
                              RDiv(RAdd(RMul(character.avg_sentence_length,
                                             RInt(total_sentences - 1)),
                                        Mean(lengths)),
                                   RInt(total_sentences))])

(* the characters dict after _update_character_patterns(speaker, text) *)
_update_character_patterns(chars, speaker, text) ==
    IF speaker \notin DOMAIN chars THEN chars
    ELSE LET character == chars[speaker]
             total_sentences == character.dialogue_count + 1
             lengths == Tabulated[text].sentence_lengths
             avg == IF lengths # <<>>
                    THEN RDiv(RAdd(RMul(character.avg_sentence_length,
                                        RInt(total_sentences - 1)),
                                   Mean(lengths)),
                              RInt(total_sentences))
                    ELSE character.avg_sentence_length
         IN  Put(chars, speaker,
                 [character EXCEPT !.dialogue_count = total_sentences,
                                   !.avg_sentence_length = avg])

(* StoreLine with scene_position counted from 1 *)
StoreLineOneBased(speaker, text, context, emotional_tone) ==
    /\ dialogue_history' =
           Append(dialogue_history,
                  DialogueLine(speaker, text, context, emotional_tone,
                               Len(dialogue_history) + 1))
    /\ characters' = _update_character_patterns(characters, speaker, text)

(* lines 512-524 of analyze_dialogue_line: store the line, then update the *)
(* speaker's profile                                                       *)
StoreLine(speaker, text, context, emotional_tone) ==
    /\ dialogue_history' =
           Append(dialogue_history,
                  DialogueLine(speaker, text, context, emotional_tone,
                               Len(dialogue_history)))
    /\ characters' = _update_character_patterns(characters, speaker, text)

(* ret.value of a call that returns None *)
NoValue == [returned |-> TRUE]

Idle == pc = "idle"

add_character(name, voice_description) ==
    /\ Idle
    /\ characters' =
           Put(characters, name,
               Character(name, IF voice_description = None
                               THEN DefaultVoice ELSE voice_description[1]))
    /\ ret' = [op |-> "add_character", value |-> NoValue]
    /\ UNCHANGED <<dialogue_history, scene_context, pc, export_loop, threads>>

set_scene_context(setting, mood, tension, chars, plot_points) ==
    /\ Idle
    /\ scene_context' =
           Some(SceneContext(setting, mood, tension, chars, plot_points))
    /\ ret' = [op |-> "set_scene_context", value |-> NoValue]
    /\ UNCHANGED <<characters, dialogue_history, pc, export_loop, threads>>

(* analyze_dialogue_line with the consistency check made after the line is *)
(* stored and the profile written                                          *)
AnalyzeAfterUpdate(speaker, text, context) ==
    /\ Idle
    /\ Len(dialogue_history) < MaxHistory
    /\ LET analysis == Analysis(speaker, text)
           updated == _update_character_patterns(characters, speaker, text)
           lengths == Tabulated[text].sentence_lengths
           current_avg_length ==
               IF lengths # <<>> THEN Mean(lengths) ELSE RInt(0)
           avg == updated[speaker].avg_sentence_length
           length_diff == RAbs(RSub(current_avg_length, avg))
       IN  /\ StoreLine(speaker, text, context, analysis.emotional_tone)
           /\ ret' = [op |-> "analyze_dialogue_line",
                      value |->
                          IF speaker \notin Registered THEN analysis
                          ELSE [analysis EXCEPT
                                   !.character_consistency.voice_drift_warnings =
                                       IF /\ RLess(RInt(0), avg)
                                          /\ RLess(RInt(3), length_diff)
                                       THEN <<length_diff>> ELSE <<>>]]
    /\ UNCHANGED <<scene_context, pc, export_loop, threads>>

analyze_dialogue_line(speaker, text, context) ==
    /\ Idle
    /\ Len(dialogue_history) < MaxHistory
    /\ LET analysis == Analysis(speaker, text) IN
         /\ StoreLine(speaker, text, context, analysis.emotional_tone)
         /\ ret' = [op |-> "analyze_dialogue_line", value |-> analysis]
    /\ UNCHANGED <<scene_context, pc, export_loop, threads>>

(* voice_patterns.get(key, 0.5) *)
VoiceParameter(voice_patterns, key) ==
    IF key \in DOMAIN voice_patterns THEN voice_patterns[key] ELSE Rat(5, 10)

High(x) == RLess(Rat(7, 10), x)
Low(x)  == RLess(x, Rat(3, 10))

_get_voice_guidance(speaker) ==
    IF speaker \notin Registered THEN <<"not_established">>
    ELSE LET voice == characters[speaker].voice_patterns
             formality == VoiceParameter(voice, "formality")
             verbosity == VoiceParameter(voice, "verbosity")
             emotion == VoiceParameter(voice, "emotion_intensity")
         IN  (IF High(formality) THEN <<"formal">>
              ELSE IF Low(formality) THEN <<"casual">> ELSE <<>>)
             \o (IF High(verbosity) THEN <<"wordy">>
                 ELSE IF Low(verbosity) THEN <<"brief">> ELSE <<>>)
             \o (IF High(emotion) THEN <<"expressive">>
                 ELSE IF Low(emotion) THEN <<"restrained">> ELSE <<>>)

_get_scene_context_advice ==
    IF scene_context = None THEN <<"set_scene_context">>
    ELSE (IF scene_context[1].tension_level > 7 THEN <<"high_tension">>
          ELSE IF scene_context[1].tension_level < 3 THEN <<"low_tension">>
          ELSE <<>>)
         \o (IF scene_context[1].mood = "romantic" THEN <<"romantic">>
             ELSE IF scene_context[1].mood = "mysterious" THEN <<"mysterious">>
             ELSE <<>>)

(* suggest_improved_dialogue getting its alternatives from a full          *)
(* analyze_dialogue_line call                                              *)
SuggestByFullAnalysis(speaker, original_text) ==
    /\ Idle
    /\ Len(dialogue_history) < MaxHistory
    /\ LET analysis == Analysis(speaker, original_text) IN
         /\ StoreLine(speaker, original_text, "", analysis.emotional_tone)
         /\ ret' = [op |-> "suggest_improved_dialogue",
                    value |->
                        [original |-> original_text,
                         speaker |-> speaker,
                         cliche_alternatives |-> analysis.dialogue_alternatives,
                         character_voice_notes |-> _get_voice_guidance(speaker),
                         scene_context_advice |-> _get_scene_context_advice]]
    /\ UNCHANGED <<scene_context, pc, export_loop, threads>>

(* The alternatives are found by generate_dialogue_alternatives, which     *)
(* reads characters and the tables and stores nothing.                     *)
suggest_improved_dialogue(speaker, original_text) ==
    /\ Idle
    /\ ret' = [op |-> "suggest_improved_dialogue",
               value |->
                   [original |-> original_text,
                    speaker |-> speaker,
                    cliche_alternatives |->
                        generate_dialogue_alternatives(speaker, original_text),
                    character_voice_notes |-> _get_voice_guidance(speaker),
                    scene_context_advice |-> _get_scene_context_advice]]
    /\ UNCHANGED <<characters, dialogue_history, scene_context, pc,
                   export_loop, threads>>

Min(a, b) == IF RLess(a, b) THEN a ELSE b
Max(a, b) == IF RLess(a, b) THEN b ELSE a

(* _calculate_consistency_score taking the whole share of distinct tones   *)
(* off the score, not half of it                                           *)
ConsistencyScoreFullPenalty(character_lines) ==
    IF Len(character_lines) < 2 THEN RInt(1)
    ELSE LET tones == [i \in 1..Len(character_lines) |->
                          character_lines[i].emotional_tone]
             unique_tones == Cardinality(Range(tones))
             consistency == RSub(RInt(1), Rat(unique_tones, Len(tones)))
         IN  Max(RInt(0), Min(RInt(1), consistency))

_calculate_consistency_score(character_lines) ==
    IF Len(character_lines) < 2 THEN RInt(1)
    ELSE LET tones == [i \in 1..Len(character_lines) |->
                          character_lines[i].emotional_tone]
             unique_tones == Cardinality(Range(tones))
             consistency ==
                 RSub(RInt(1),
                      RMul(Rat(unique_tones, Len(tones)), Rat(5, 10)))
         IN  Max(RInt(0), Min(RInt(1), consistency))

LinesOf(history, speaker) ==
    SelectSeq(history, LAMBDA line : line.speaker = speaker)

(* the summary dict (its avg_sentence_length, rounded for display, and its *)
(* common_tones are left out), or the error dict                           *)
VoiceSummary(speaker) ==
    IF speaker \notin Registered
    THEN [error |-> "Character not found", name |-> speaker]
    ELSE [name |-> characters[speaker].name,
          dialogue_count |-> characters[speaker].dialogue_count,
          voice_patterns |-> characters[speaker].voice_patterns,
          consistency_score |->
              _calculate_consistency_score(LinesOf(dialogue_history, speaker))]

get_character_voice_summary(speaker) ==
    /\ Idle
    /\ ret' = [op |-> "get_character_voice_summary",
               value |-> VoiceSummary(speaker)]
    /\ UNCHANGED <<characters, dialogue_history, scene_context, pc,
                   export_loop, threads>>

(* The head of the report, built before _analyze_overall_patterns runs. *)
ReportHead ==
    [total_dialogue_lines |-> Len(dialogue_history),
     characters_analyzed |-> Cardinality(Registered),
     scene_context |-> scene_context,
     character_summaries |-> [name \in Registered |-> VoiceSummary(name)]]

(* ret while a call has not returned yet *)
Running == [returned |-> FALSE]

NotExporting == [index |-> 0, total_cliches |-> 0, all_tones |-> <<>>,
                 head |-> None]

(* export_analysis_report up to the first iteration of the sum(...) in     *)
(* _analyze_overall_patterns; with an empty history it returns at once.    *)
export_analysis_report ==
    /\ Idle
    /\ IF dialogue_history = <<>>
       THEN /\ ret' = [op |-> "export_analysis_report",
                       value |-> [head |-> ReportHead, overall_patterns |-> None]]
            /\ UNCHANGED <<pc, export_loop>>
       ELSE /\ pc' = "export"
            /\ export_loop' =
                   [index |-> 0, total_cliches |-> 0,
                    all_tones |-> [i \in 1..Len(dialogue_history) |->
                                      dialogue_history[i].emotional_tone],
                    head |-> Some(ReportHead)]
            /\ ret' = [op |-> "export_analysis_report", value |-> Running]
    /\ UNCHANGED <<characters, dialogue_history, scene_context, threads>>

(* One step of `for line in self.dialogue_history` (lines 868-871): the    *)
(* list iterator tests its index against the current length of the list,   *)
(* then the body calls analyze_dialogue_line(line.speaker, line.text),     *)
(* which stores one more line.                                             *)
ExportStep ==
    /\ pc = "export"
    /\ IF export_loop.index < Len(dialogue_history)
       THEN LET line == dialogue_history[export_loop.index + 1]
                analysis == Analysis(line.speaker, line.text)
            IN  /\ Len(dialogue_history) < MaxHistory
                /\ StoreLine(line.speaker, line.text, "",
                             analysis.emotional_tone)
                /\ export_loop' =
                       [export_loop EXCEPT
                           !.index = @ + 1,
                           !.total_cliches =
                               @ + Len(analysis.cliches_detected)]
                /\ UNCHANGED <<pc, ret>>
       ELSE /\ pc' = "idle"
            /\ export_loop' = NotExporting
            /\ ret' =
                   [op |-> "export_analysis_report",
                    value |->
                        [head |-> export_loop.head[1],
                         overall_patterns |-> Some(
                             [tone_distribution |->
                                  [t \in Range(export_loop.all_tones) |->
                                      Cardinality(
                                          {i \in 1..Len(export_loop.all_tones) :
                                              export_loop.all_tones[i] = t})],
                              cliche_frequency |->
                                  Rat(export_loop.total_cliches,
                                      Len(dialogue_history)),
                              avg_dialogue_length |->
                                  Mean([i \in 1..Len(dialogue_history) |->
                                           Tabulated[dialogue_history[i].text]
                                               .word_count])])]]
            /\ UNCHANGED <<characters, dialogue_history>>
    /\ UNCHANGED <<scene_context, threads>>

-----------------------------------------------------------------------------
(* The single-threaded session.                                            *)

NoThreads == [t \in {} |-> None]

Init ==
    /\ characters = [n \in {} |-> None]
    /\ dialogue_history = <<>>
    /\ scene_context = None
    /\ pc = "idle"
    /\ export_loop = NotExporting
    /\ threads = NoThreads
    /\ ret = [op |-> "__init__", value |-> NoValue]

Next ==
    \/ \E name \in Names, voice_description \in VoiceDescriptions :
           add_character(name, voice_description)
    \/ \E s \in Scenes :
           set_scene_context(s.setting, s.mood, s.tension, s.characters,
                             s.plot_points)
    \/ \E speaker \in Names, text \in Texts, context \in Contexts :
           analyze_dialogue_line(speaker, text, context)
    \/ \E speaker \in Names, text \in SuggestTexts :
           suggest_improved_dialogue(speaker, text)
    \/ \E speaker \in Names : get_character_voice_summary(speaker)
    \/ export_analysis_report
    \/ ExportStep

Spec == Init /\ [][Next]_vars

(* Under weak fairness of the loop step: a call that can take its next     *)
(* step takes it (the interpreter keeps running the loop).                 *)
FairSpec == Spec /\ WF_vars(ExportStep)

-----------------------------------------------------------------------------
(* Properties of the session.                                              *)

(* an analyze_dialogue_line(speaker, text) call returns: the public call,  *)
(* or the call made by one iteration of the export loop                    *)
AnalyzeCall(speaker, text) ==
    \/ /\ ret'.op = "analyze_dialogue_line"
       /\ \E context \in Contexts :
              analyze_dialogue_line(speaker, text, context)
    \/ /\ pc = "export"
       /\ export_loop.index < Len(dialogue_history)
       /\ dialogue_history[export_loop.index + 1].speaker = speaker
       /\ dialogue_history[export_loop.index + 1].text = text
       /\ ExportStep

RECURSIVE RSum(_)
RSum(s) == IF s = <<>> THEN RInt(0) ELSE RAdd(Head(s), RSum(Tail(s)))

(* the per-line average sentence lengths of the last n lines of a speaker *)
RecordedAverages(speaker, n) ==
    LET lines == LinesOf(dialogue_history, speaker)
        recent == SubSeq(lines, Len(lines) - n + 1, Len(lines))
    IN  [i \in 1..Len(recent) |->
            Tabulated[recent[i].text].pacing_analysis.avg_sentence_length]

(* C1: every registered character's dialogue_count equals the number of    *)
(* lines of dialogue_history whose speaker is that character.              *)
DialogueCountMatchesHistory ==
    \A name \in Registered :
        characters[name].dialogue_count =
            Len(LinesOf(dialogue_history, name))

(* C2: a registered character's avg_sentence_length is the arithmetic mean *)
(* of the per-line average sentence lengths of the n = dialogue_count      *)
(* lines recorded for it.                                                  *)
RunningAverageIsMean ==
    \A name \in Registered :
        LET n == characters[name].dialogue_count IN
        n >= 1 =>
            characters[name].avg_sentence_length =
                RDiv(RSum(RecordedAverages(name, n)), RInt(n))

(* C3: export_analysis_report leaves characters, dialogue_history and      *)
(* scene_context as they were.                                             *)
ExportIsReadOnly ==
    [][(export_analysis_report \/ ExportStep) => UNCHANGED store]_vars

ExportNeverCatchesUp ==
    pc = "export" => export_loop.index < Len(dialogue_history)

(* C5: suggest_improved_dialogue leaves dialogue_history, the character    *)
(* profiles and scene_context unchanged, for every speaker and text.       *)
SuggestIsNonMutating ==
    [][(/\ ret'.op = "suggest_improved_dialogue"
        /\ \E speaker \in Names, text \in SuggestTexts :
               suggest_improved_dialogue(speaker, text))
       => UNCHANGED store]_vars

SuggestWitness ==
    /\ ret.op = "suggest_improved_dialogue"
    /\ ret.value.speaker \in Registered
    /\ characters[ret.value.speaker].dialogue_count = 1
    /\ ret.value.cliche_alternatives # <<>>
    /\ Len(dialogue_history) = 2

PositionsAreIndices ==
    \A i \in 1..Len(dialogue_history) :
        dialogue_history[i].scene_position = i - 1

(* C6: dialogue_history is append-only: every step keeps the records it    *)
(* held, an analyze_dialogue_line call appends exactly one, and the record *)
(* at index i (from 0) has scene_position i.                               *)
HistoryAppendOnly ==
    /\ []PositionsAreIndices
    /\ [][/\ Len(dialogue_history') \in
                {Len(dialogue_history), Len(dialogue_history) + 1}
          /\ SubSeq(dialogue_history', 1, Len(dialogue_history))
                = dialogue_history
          /\ (\E speaker \in Names, text \in Texts :
                  AnalyzeCall(speaker, text))
             => Len(dialogue_history') = Len(dialogue_history) + 1]_vars

AppendWitness ==
    /\ Len(dialogue_history) = 3
    /\ dialogue_history[1].speaker # dialogue_history[2].speaker
    /\ dialogue_history[3].context = ""
    /\ dialogue_history[3].scene_position = 2

(* C7: every analyze_dialogue_line call for a registered character adds    *)
(* exactly one to that character's dialogue_count, with or without a       *)
(* cliche or a sentence in the text, and leaves every other profile as it  *)
(* was.                                                                    *)
ProfileUpdateAlwaysRuns ==
    [][\A speaker \in Names, text \in Texts :
          (AnalyzeCall(speaker, text) /\ speaker \in Registered) =>
              /\ DOMAIN characters' = Registered
              /\ characters'[speaker].dialogue_count =
                     characters[speaker].dialogue_count + 1
              /\ \A other \in Registered \ {speaker} :
                     characters'[other] = characters[other]]_vars

ProfileUpdateWitness ==
    /\ ret.op = "analyze_dialogue_line"
    /\ ret.value.sentence_count = 0
    /\ ret.value.cliches_detected = <<>>
    /\ ret.value.speaker \in Registered
    /\ characters[ret.value.speaker].dialogue_count = 2
    /\ Cardinality(Registered) = 2

-----------------------------------------------------------------------------
(* Two threads of a concurrent host, each making one analyze_dialogue_line *)
(* call for its own registered character.  A thread can be pre-empted      *)
(* between any two of the steps below; each step reads and writes the      *)
(* shared session as the corresponding lines of the code do.               *)

Threads == {1, 2}

SpeakerOf(t) == IF t = 1 THEN "Sarah" ELSE "Tommy"

ThreadContext == "deflecting"

NoLine == DialogueLine("", "", "", "", 0)

ConcCharacters == [name \in Names |-> Character(name, DefaultVoice)]

ConcInit ==
    /\ characters = ConcCharacters
    /\ dialogue_history = <<>>
    /\ scene_context = None
    /\ pc = "idle"
    /\ export_loop = NotExporting
    /\ ret = [op |-> "__init__", value |-> NoValue]
    /\ threads = [t \in Threads |->
                     [pc |-> "call", text |-> "", tone |-> "", line |-> NoLine]]

ThreadFrame == UNCHANGED <<scene_context, pc, export_loop, ret>>

(* lines 495-510: the analysis dict is built from the text and the         *)
(* speaker's own profile                                                   *)
ThreadAnalyze(t, text) ==
    /\ threads[t].pc = "call"
    /\ threads' = [threads EXCEPT
                      ![t].pc = "build",
                      ![t].text = text,
                      ![t].tone = Analysis(SpeakerOf(t), text).emotional_tone]
    /\ UNCHANGED <<characters, dialogue_history>>
    /\ ThreadFrame

(* lines 513-520: the DialogueLine is built; len(self.dialogue_history) is *)
(* read here                                                               *)
ThreadBuildLine(t) ==
    /\ threads[t].pc = "build"
    /\ threads' = [threads EXCEPT
                      ![t].pc = "append",
                      ![t].line =
                          DialogueLine(SpeakerOf(t), threads[t].text,
                                       ThreadContext, threads[t].tone,
                                       Len(dialogue_history))]
    /\ UNCHANGED <<characters, dialogue_history>>
    /\ ThreadFrame

(* line 521: self.dialogue_history.append(dialogue_line) *)
ThreadAppend(t) ==
    /\ threads[t].pc = "append"
    /\ dialogue_history' = Append(dialogue_history, threads[t].line)
    /\ threads' = [threads EXCEPT ![t].pc = "increment"]
    /\ UNCHANGED characters
    /\ ThreadFrame

(* line 634: character.dialogue_count += 1 *)
ThreadIncrement(t) ==
    /\ threads[t].pc = "increment"
    /\ characters' =
           [characters EXCEPT ![SpeakerOf(t)].dialogue_count = @ + 1]
    /\ threads' = [threads EXCEPT ![t].pc = "average"]
    /\ UNCHANGED dialogue_history
    /\ ThreadFrame

(* lines 637-647: the running average, from the count just written *)
ThreadAverage(t) ==
    /\ threads[t].pc = "average"
    /\ LET character == characters[SpeakerOf(t)]
           lengths == Tabulated[threads[t].text].sentence_lengths
           total_sentences == character.dialogue_count
       IN  characters' =
               IF lengths = <<>> THEN characters
               ELSE [characters EXCEPT
                        ![SpeakerOf(t)].avg_sentence_length =
                            RDiv(RAdd(RMul(@, RInt(total_sentences - 1)),
                                      Mean(lengths)),
                                 RInt(total_sentences))]
    /\ threads' = [threads EXCEPT ![t].pc = "done"]
    /\ UNCHANGED dialogue_history
    /\ ThreadFrame

ConcNext ==
    \E t \in Threads :
        \/ \E text \in Texts : ThreadAnalyze(t, text)
        \/ ThreadBuildLine(t)
        \/ ThreadAppend(t)
        \/ ThreadIncrement(t)
        \/ ThreadAverage(t)

ConcSpec == ConcInit /\ [][ConcNext]_vars

AllDone == \A t \in Threads : threads[t].pc = "done"

(* what the session holds after thread `first` and then thread `second`    *)
(* have each run their call alone, from ConcInit                           *)
SerialOutcome(first, second) ==
    LET line(t, position) ==
            DialogueLine(SpeakerOf(t), threads[t].text, ThreadContext,
                         Tabulated[threads[t].text].emotional_tone, position)
    IN  <<_update_character_patterns(
              _update_character_patterns(ConcCharacters, SpeakerOf(first),
                                         threads[first].text),
              SpeakerOf(second), threads[second].text),
          <<line(first, 0), line(second, 1)>>>>

(* C8: when two concurrent analyze_dialogue_line calls for different       *)
(* registered characters have both returned, the session is in a state     *)
(* that one of the two serial orders of the calls produces, and every      *)
(* record's scene_position is its index in dialogue_history.               *)
ConcurrentCallsSerializable ==
    AllDone =>
        /\ PositionsAreIndices
        /\ \E first \in Threads :
               <<characters, dialogue_history>> =
                   SerialOutcome(first, CHOOSE t \in Threads : t # first)

-----------------------------------------------------------------------------
(* The tone classifier on its own: texts are built one word at a time.     *)

MaxToneWords == 3

ToneWords == {"love", "heart", "Hello", "SURE", "kill", "calm", "oh", "great"}

ToneResult(text) ==
    [op |-> "_analyze_tone",
     value |-> [text |-> text, tone |-> _analyze_tone(text)]]

SessionUnused ==
    /\ characters = [n \in {} |-> None]
    /\ dialogue_history = <<>>
    /\ scene_context = None
    /\ pc = "idle"
    /\ export_loop = NotExporting
    /\ threads = NoThreads

ToneInit == SessionUnused /\ ret = ToneResult("")

ToneOfLongerText(word) ==
    /\ WordCount(ret.value.text) < MaxToneWords
    /\ ret' = ToneResult(IF ret.value.text = "" THEN word
                         ELSE ret.value.text \o " " \o word)
    /\ UNCHANGED <<characters, dialogue_history, scene_context, pc,
                   export_loop, threads>>

ToneNext == \E word \in ToneWords : ToneOfLongerText(word)

ToneSpec == ToneInit /\ [][ToneNext]_vars

(* for each tone of the table, the number of its keywords found in text *)
ScoresOf(text) ==
    [k \in 1..Len(tone_keywords) |->
        KeywordScore(tone_keywords[k][2], lower(text))]

(* C9: _analyze_tone returns "neutral" when no keyword of any tone occurs  *)
(* in the text; otherwise it returns the tone with the highest count of    *)
(* keywords found, and among tones with that count the one that comes      *)
(* first in the tone-keyword table.                                        *)
ToneIsFirstMaximal ==
    LET score == ScoresOf(ret.value.text)
        tones == 1..Len(tone_keywords)
    IN  IF \A k \in tones : score[k] = 0
        THEN ret.value.tone = "neutral"
        ELSE \E k \in tones :
                 /\ ret.value.tone = tone_keywords[k][1]
                 /\ \A j \in tones : score[j] <= score[k]
                 /\ \A j \in tones : j < k => score[j] < score[k]

(* "sure" is a sarcastic keyword, "love" a happy and a romantic one: three *)
(* tones tie at one keyword and the first registered, happy, is returned   *)
ToneTieWitness ==
    /\ ret.value.text = "SURE love"
    /\ ret.value.tone = "happy"

-----------------------------------------------------------------------------
(* The pacing score on its own: texts are built one character at a time.   *)

MaxPacingLength == 4

PacingChars == {"a", " ", ".", "!", "?"}

PacingResult(text) ==
    [op |-> "_calculate_pacing_score",
     value |-> [text |-> text, pacing_score |-> _calculate_pacing_score(text)]]

PacingInit == SessionUnused /\ ret = PacingResult("")

PacingOfLongerText(char) ==
    /\ Len(ret.value.text) < MaxPacingLength
    /\ ret' = PacingResult(ret.value.text \o char)
    /\ UNCHANGED <<characters, dialogue_history, scene_context, pc,
                   export_loop, threads>>

PacingNext == \E char \in PacingChars : PacingOfLongerText(char)

PacingSpec == PacingInit /\ [][PacingNext]_vars

CharsOf(text) == {CharAt(text, i) : i \in 1..Len(text)}

(* C10, as claimed: the pacing score is exactly 0.5 for every text that    *)
(* contains no terminal punctuation character.                             *)
UnpunctuatedScoresHalf ==
    CharsOf(ret.value.text) \cap Terminal = {} =>
        ret.value.pacing_score = Half

(* C10, amended: the pacing score is exactly 0.5 for every text that holds *)
(* no sentence, that is, only whitespace and terminal punctuation (the     *)
(* empty text included).                                                   *)
NoSentenceScoresHalf ==
    CharsOf(ret.value.text) \subseteq (Whitespace \cup Terminal) =>
        ret.value.pacing_score = Half

NoSentenceWitness ==
    /\ ret.value.text = " ! ."
    /\ ret.value.pacing_score = Half

-----------------------------------------------------------------------------
(* The pacing score of long sentences: texts are built one word at a time, *)
(* and a sentence is closed by a full stop.                                *)

MaxPacingWords == 29

MaxPacingSentences == 2

EndsSentence(text) == text # "" /\ CharAt(text, Len(text)) \in Terminal

LongPacingInit == SessionUnused /\ ret = PacingResult("")

PacingOfOneMoreWord(word) ==
    /\ WordCount(ret.value.text) < MaxPacingWords
    /\ EndsSentence(ret.value.text) =>
           Len(SentenceLengths(ret.value.text)) < MaxPacingSentences
    /\ ret' = PacingResult(IF ret.value.text = "" THEN word
                           ELSE ret.value.text \o " " \o word)
    /\ UNCHANGED <<characters, dialogue_history, scene_context, pc,
                   export_loop, threads>>

PacingOfClosedSentence ==
    /\ ret.value.text # ""
    /\ ~EndsSentence(ret.value.text)
    /\ ret' = PacingResult(ret.value.text \o ".")
    /\ UNCHANGED <<characters, dialogue_history, scene_context, pc,
                   export_loop, threads>>

LongPacingNext ==
    \/ \E word \in {"a"} : PacingOfOneMoreWord(word)
    \/ PacingOfClosedSentence

LongPacingSpec == LongPacingInit /\ [][LongPacingNext]_vars

(* C11: for every text the pacing score lies between 0 and 1 inclusive,    *)
(* whatever the number of sentences and their word counts.                 *)
PacingScoreInUnitInterval ==
    /\ RLeq(RInt(0), ret.value.pacing_score)
    /\ RLeq(ret.value.pacing_score, RInt(1))

(* The upper end of the range is kept: variety and length_score are both   *)
(* at most 1.                                                              *)
PacingScoreAtMostOne == RLeq(ret.value.pacing_score, RInt(1))

-----------------------------------------------------------------------------
(* Regular-expression substitution, for the patterns the voice transforms  *)
(* use.  Every pattern that starts with \b is a list of alternatives that  *)
(* begin with a letter, matched without regard to case, and followed       *)
(* either by \b (the alternatives end with a letter) or by \s+.            *)

Digits == "0123456789"

(* \w *)
IsWordChar(c) ==
    \/ IsUpperChar(c)
    \/ IsLowerChar(c)
    \/ \E i \in 1..10 : CharAt(Digits, i) = c
    \/ c = "_"

(* \b at index i, where the pattern goes on with a word character *)
BoundaryBefore(text, i) == i = 1 \/ ~IsWordChar(CharAt(text, i - 1))

(* \b at index e, where the pattern has just matched a word character *)
BoundaryAfter(text, e) == e > Len(text) \/ ~IsWordChar(CharAt(text, e))

(* the index after the run of whitespace that starts at e *)
RECURSIVE SkipSpace(_, _)
SkipSpace(text, e) ==
    IF e <= Len(text) /\ CharAt(text, e) \in Whitespace
    THEN SkipSpace(text, e + 1) ELSE e

(* Where a match of \b(w1|w2|...) followed by `tail` that starts at index  *)
(* i ends (the index after its last character), or 0 when there is none.   *)
(* tail is "b" for \b and "s" for \s+; the alternatives are tried in order.*)
MatchEnd(text, text_lower, i, words, tail) ==
    IF ~BoundaryBefore(text, i) THEN 0
    ELSE LET after(k) == i + Len(words[k])
             hits == {k \in 1..Len(words) :
                         /\ StartsAt(text_lower, words[k], i)
                         /\ IF tail = "b" THEN BoundaryAfter(text, after(k))
                            ELSE /\ after(k) <= Len(text)
                                 /\ CharAt(text, after(k)) \in Whitespace}
         IN  IF hits = {} THEN 0
             ELSE LET k == CHOOSE h \in hits : \A o \in hits : h <= o
                  IN  IF tail = "b" THEN after(k) ELSE SkipSpace(text, after(k))

(* re.sub over the non-overlapping matches from the left: each match is    *)
(* replaced by repl, followed by the matched text itself when keep holds   *)
(* (the replacement template ends with \1).                                *)
RECURSIVE ReSubFrom(_, _, _, _, _, _, _)
ReSubFrom(text, text_lower, i, words, tail, repl, keep) ==
    IF i > Len(text) THEN ""
    ELSE LET e == MatchEnd(text, text_lower, i, words, tail) IN
         IF e = 0
         THEN CharAt(text, i)
              \o ReSubFrom(text, text_lower, i + 1, words, tail, repl, keep)
         ELSE repl \o (IF keep THEN SubSeq(text, i, e - 1) ELSE "")
              \o ReSubFrom(text, text_lower, e, words, tail, repl, keep)

ReSub(text, words, tail, repl, keep) ==
    ReSubFrom(text, lower(text), 1, words, tail, repl, keep)

(* for old, new in replacements.items():                                   *)
(*     result = re.sub(r'\b' + old + r'\b', new, result, re.IGNORECASE)    *)
RECURSIVE ReplaceWords(_, _, _)
ReplaceWords(text, replacements, k) ==
    IF k > Len(replacements) THEN text
    ELSE ReplaceWords(ReSub(text, <<replacements[k][1]>>, "b",
                            replacements[k][2], FALSE),
                      replacements, k + 1)

(* re.match(r'^(p1|p2|...)', text) *)
StartsWithAny(text, prefixes) == \E p \in prefixes : StartsAt(text, p, 1)

(* str.endswith((s1, s2, ...)) *)
EndsWithAny(text, suffixes) ==
    \E x \in suffixes :
        /\ Len(x) <= Len(text)
        /\ SubSeq(text, Len(text) - Len(x) + 1, Len(text)) = x

(* str.rstrip(chars) *)
RECURSIVE RStripChars(_, _)
RStripChars(s, chars) ==
    IF s # "" /\ CharAt(s, Len(s)) \in chars
    THEN RStripChars(SubSeq(s, 1, Len(s) - 1), chars) ELSE s

(* re.sub of every maximal run of at least `least` characters of the set   *)
(* chars by repl: r'!+', r'\.\.\.+', r'[!]{2,}', r'\s+'                    *)
RECURSIVE RunEnd(_, _, _)
RunEnd(text, e, chars) ==
    IF e <= Len(text) /\ CharAt(text, e) \in chars
    THEN RunEnd(text, e + 1, chars) ELSE e

(* the index of the first character of the set chars at or after i, or    *)
(* Len(text) + 1                                                           *)
RECURSIVE RunStart(_, _, _)
RunStart(text, i, chars) ==
    IF i <= Len(text) /\ CharAt(text, i) \notin chars
    THEN RunStart(text, i + 1, chars) ELSE i

RECURSIVE SubRunsFrom(_, _, _, _, _)
SubRunsFrom(text, i, chars, least, repl) ==
    LET b == RunStart(text, i, chars)
        e == RunEnd(text, b, chars)
    IN  IF b > Len(text) THEN SubSeq(text, i, Len(text))
        ELSE SubSeq(text, i, b - 1)
             \o (IF e - b >= least THEN repl ELSE SubSeq(text, b, e - 1))
             \o SubRunsFrom(text, e, chars, least, repl)

SubRuns(text, chars, least, repl) == SubRunsFrom(text, 1, chars, least, repl)

-----------------------------------------------------------------------------
(* The voice transforms.  A call of random.random() or random.choice() is  *)
(* a parameter: None where the random.random() test fails, Some(choice)    *)
(* where it passes and random.choice() returns choice.                     *)

formal_replacements ==
    <<<<"can't", "cannot">>, <<"won't", "will not">>, <<"don't", "do not">>,
      <<"isn't", "is not">>, <<"aren't", "are not">>, <<"yeah", "yes">>,
      <<"okay", "very well">>, <<"sure", "certainly">>>>

formal_prefixes == <<"Perhaps", "It appears that", "One might say">>

(* _make_more_formal whose replacement of "sure" puts back an informal     *)
(* word that the loop has already passed                                   *)
MakeMoreFormalLeavingInformal(text, prefix) ==
    ReplaceWords(text,
                 <<<<"yeah", "yes">>, <<"okay", "very well">>,
                   <<"sure", "yeah, certainly">>>>, 1)

(* the alternatives of the guard of _make_more_formal *)
FormalStarts == {"Perhaps", "It seems", "One might", "I believe"}

_make_more_formal(text, prefix) ==
    LET result == ReplaceWords(text, formal_replacements, 1) IN
    IF ~StartsWithAny(result, FormalStarts) /\ prefix # None
    THEN prefix[1] \o " " \o lower(result)
    ELSE result

casual_replacements ==
    <<<<"cannot", "can't">>, <<"will not", "won't">>, <<"do not", "don't">>,
      <<"is not", "isn't">>, <<"are not", "aren't">>, <<"very well", "okay">>,
      <<"certainly", "sure">>, <<"perhaps", "maybe">>>>

casual_markers == <<"Look,", "Hey,", "Well,">>

(* the alternatives of the guard of _make_more_casual, which is matched    *)
(* without regard to case                                                  *)
CasualStarts == {"look", "hey", "well", "you know"}

_make_more_casual(text, marker) ==
    LET result == ReplaceWords(text, casual_replacements, 1) IN
    IF ~StartsWithAny(lower(result), CasualStarts) /\ marker # None
    THEN marker[1] \o " " \o lower(result)
    ELSE result

verbose_expansions ==
    <<<<"bad", "absolutely terrible">>, <<"good", "quite excellent">>,
      <<"big", "enormously large">>, <<"small", "rather diminutive">>,
      <<"fast", "incredibly swift">>, <<"slow", "painfully sluggish">>,
      <<"hard", "extraordinarily difficult">>,
      <<"easy", "remarkably simple">>>>

explanatory_additions ==
    <<", if you understand what I mean",
      ", as I'm sure you can appreciate",
      ", which is quite significant",
      ", in my considered opinion">>

_make_more_verbose(text, addition) ==
    LET result == ReplaceWords(text, verbose_expansions, 1) IN
    IF addition # None
    THEN RStripChars(result, Terminal) \o addition[1] \o "."
    ELSE result

(* re.sub(r',\s*(which is|that is|as you know)', '', text, re.IGNORECASE)  *)
RECURSIVE DropClausesFrom(_, _, _)
DropClausesFrom(text, text_lower, i) ==
    IF i > Len(text) THEN ""
    ELSE LET start == SkipSpace(text, i + 1)
             hits == {w \in {"which is", "that is", "as you know"} :
                         CharAt(text, i) = "," /\ StartsAt(text_lower, w, start)}
         IN  IF hits = {}
             THEN CharAt(text, i) \o DropClausesFrom(text, text_lower, i + 1)
             ELSE DropClausesFrom(text, text_lower,
                                  start + Len(CHOOSE w \in hits : TRUE))

(* re.sub(r',?\s+(I guess|I suppose|or something)\.?$', '.', text), for a  *)
(* text whose whitespace is single spaces with none at either end          *)
DropTrailingQualifier(text) ==
    LET body == IF EndsWithAny(text, {"."})
                THEN SubSeq(text, 1, Len(text) - 1) ELSE text
        hits == {q \in {" I guess", " I suppose", " or something"} :
                    EndsWithAny(body, {q})}
    IN  IF hits = {} THEN text
        ELSE LET q == CHOOSE h \in hits : TRUE
                 kept == SubSeq(body, 1, Len(body) - Len(q))
             IN  (IF EndsWithAny(kept, {","})
                  THEN SubSeq(kept, 1, Len(kept) - 1) ELSE kept) \o "."

_make_more_terse(text) ==
    LET r1 == ReSub(text, <<"quite", "rather", "very", "really", "absolutely",
                            "completely">>, "s", "", FALSE)
        r2 == ReSub(r1, <<"i think", "i believe", "it seems", "perhaps",
                          "maybe">>, "s", "", FALSE)
        r3 == ReSub(r2, <<"you know", "like", "sort of", "kind of">>,
                    "s", "", FALSE)
        r4 == DropClausesFrom(r3, lower(r3), 1)
        result == Strip(SubRuns(r4, Whitespace, 1, " "))
    IN  DropTrailingQualifier(result)

intensifiers == <<"absolutely", "completely", "utterly", "totally", "damn">>

_add_emotional_intensity(text, intensifier, exclaim) ==
    LET result == IF intensifier # None
                  THEN ReSub(text, <<"bad", "good", "wrong", "right",
                                     "important", "serious">>,
                             "b", intensifier[1] \o " ", TRUE)
                  ELSE text
    IN  IF ~EndsWithAny(text, {"!", "?", "..."}) /\ exclaim
        THEN RStripChars(result, {"."}) \o "!"
        ELSE result

_reduce_emotional_intensity(text) ==
    LET r1 == ReSub(text, <<"absolutely", "completely", "utterly", "totally",
                            "damn", "really", "very">>, "s", "", FALSE)
        r2 == SubRuns(r1, {"!"}, 1, ".")
        r3 == SubRuns(r2, {"."}, 3, ".")
    IN  Strip(r3)

-----------------------------------------------------------------------------
(* Voice adaptation and the alternatives built from it.  The functions     *)
(* below give the set of values a call can return, one for each outcome of *)
(* its random draws.                                                       *)

(* the alternatives of the formality step, for one alternative phrase *)
FormalOutcomes(alt) ==
    {_make_more_formal(alt, None)}
        \cup {_make_more_formal(alt, Some(formal_prefixes[k])) :
                 k \in 1..Len(formal_prefixes)}

CasualOutcomes(alt) ==
    {_make_more_casual(alt, None)}
        \cup {_make_more_casual(alt, Some(casual_markers[k])) :
                 k \in 1..Len(casual_markers)}

VerboseOutcomes(alt) ==
    {_make_more_verbose(alt, None)}
        \cup {_make_more_verbose(alt, Some(explanatory_additions[k])) :
                 k \in 1..Len(explanatory_additions)}

DramaticOutcomes(alt) ==
    {_add_emotional_intensity(alt, intensifier, exclaim) :
        intensifier \in {None} \cup {Some(intensifiers[k]) :
                                        k \in 1..Len(intensifiers)},
        exclaim \in BOOLEAN}

HighOrEqual(x) == RLeq(Rat(7, 10), x)
LowOrEqual(x)  == RLeq(x, Rat(3, 10))

(* AdaptedOutcomes with the limits 0.3 and 0.7 of the formality band       *)
(* counted as outside it                                                   *)
AdaptedOutcomesInclusive(voice_patterns, alt) ==
    LET formality == VoiceParameter(voice_patterns, "formality")
        verbosity == VoiceParameter(voice_patterns, "verbosity")
        emotion_intensity == VoiceParameter(voice_patterns, "emotion_intensity")
        s1 == IF HighOrEqual(formality) THEN FormalOutcomes(alt)
              ELSE IF LowOrEqual(formality) THEN CasualOutcomes(alt)
              ELSE {alt}
        s2 == UNION {IF High(verbosity) THEN VerboseOutcomes(adapted)
                     ELSE IF Low(verbosity) THEN {_make_more_terse(adapted)}
                     ELSE {adapted} : adapted \in s1}
    IN  UNION {IF High(emotion_intensity) THEN DramaticOutcomes(adapted)
               ELSE IF Low(emotion_intensity)
                    THEN {_reduce_emotional_intensity(adapted)}
                    ELSE {adapted} : adapted \in s2}

(* the body of the loop of _adapt_to_character_voice (lines 321-344): the  *)
(* values `adapted` can have when it is appended                           *)
AdaptedOutcomes(voice_patterns, alt) ==
    LET formality == VoiceParameter(voice_patterns, "formality")
        verbosity == VoiceParameter(voice_patterns, "verbosity")
        emotion_intensity == VoiceParameter(voice_patterns, "emotion_intensity")
        s1 == IF High(formality) THEN FormalOutcomes(alt)
              ELSE IF Low(formality) THEN CasualOutcomes(alt)
              ELSE {alt}
        s2 == UNION {IF High(verbosity) THEN VerboseOutcomes(adapted)
                     ELSE IF Low(verbosity) THEN {_make_more_terse(adapted)}
                     ELSE {adapted} : adapted \in s1}
    IN  UNION {IF High(emotion_intensity) THEN DramaticOutcomes(adapted)
               ELSE IF Low(emotion_intensity)
                    THEN {_reduce_emotional_intensity(adapted)}
                    ELSE {adapted} : adapted \in s2}

(* the transforms the loop body calls for a voice, in the order of the     *)
(* calls                                                                   *)
TransformsCalled(voice_patterns) ==
    LET formality == VoiceParameter(voice_patterns, "formality")
        verbosity == VoiceParameter(voice_patterns, "verbosity")
        emotion_intensity == VoiceParameter(voice_patterns, "emotion_intensity")
    IN  (IF High(formality) THEN <<"_make_more_formal">>
         ELSE IF Low(formality) THEN <<"_make_more_casual">> ELSE <<>>)
        \o (IF High(verbosity) THEN <<"_make_more_verbose">>
            ELSE IF Low(verbosity) THEN <<"_make_more_terse">> ELSE <<>>)
        \o (IF High(emotion_intensity) THEN <<"_add_emotional_intensity">>
            ELSE IF Low(emotion_intensity)
                 THEN <<"_reduce_emotional_intensity">> ELSE <<>>)

(* the lists with one element of each set of a sequence of sets *)
RECURSIVE Product(_)
Product(sets) ==
    IF sets = <<>> THEN {<<>>}
    ELSE {<<h>> \o t : h \in Head(sets), t \in Product(Tail(sets))}

(* add_character voice descriptions: those of the demo, the limits of the  *)
(* middle band, one voice for each remaining transform and a description   *)
(* that leaves the three parameters out                                    *)
SarahVoice ==
    [formality |-> Rat(3, 10), verbosity |-> Rat(6, 10),
     emotion_intensity |-> Rat(8, 10), interruption_tendency |-> Rat(4, 10),
     question_frequency |-> Rat(3, 10)]

TommyVoice ==
    [formality |-> Rat(1, 10), verbosity |-> Rat(3, 10),
     emotion_intensity |-> Rat(6, 10), interruption_tendency |-> Rat(6, 10),
     question_frequency |-> Rat(2, 10)]

UpperLimitVoice ==
    [formality |-> Rat(7, 10), verbosity |-> Rat(7, 10),
     emotion_intensity |-> Rat(7, 10), interruption_tendency |-> Rat(3, 10),
     question_frequency |-> Rat(2, 10)]

WordyVoice ==
    [formality |-> Rat(5, 10), verbosity |-> Rat(9, 10),
     emotion_intensity |-> Rat(5, 10), interruption_tendency |-> Rat(3, 10),
     question_frequency |-> Rat(2, 10)]

TerseVoice ==
    [formality |-> Rat(5, 10), verbosity |-> Rat(1, 10),
     emotion_intensity |-> Rat(5, 10), interruption_tendency |-> Rat(3, 10),
     question_frequency |-> Rat(2, 10)]

PartialVoice == [question_frequency |-> Rat(7, 10)]

VoiceChoices ==
    {None, Some(SarahVoice), Some(MartinezVoice), Some(TommyVoice),
     Some(UpperLimitVoice), Some(WordyVoice), Some(TerseVoice),
     Some(PartialVoice)}

(* the character that is registered; the other name of Names stays         *)
(* unregistered                                                            *)
VoiceNames == {"Sarah"}

VoiceTexts ==
    {"You can't judge a book by its cover.",
     "Look, you can't judge a book by its cover! I love what you did here!",
     "He was like a kid in a candy store!",
     "I hate you."}

(* num_alternatives is 5 by default; calls with 1..MaxAlternatives are     *)
(* modelled                                                                *)
MaxAlternatives == 2

VoiceTabulated ==
    [text \in VoiceTexts |->
        [detected_cliches |-> detected_cliches(text),
         tone_context |-> _analyze_tone(text)]]

(* the voice_patterns a registered character can have *)
VoiceRange ==
    {IF voice_description = None THEN DefaultVoice ELSE voice_description[1] :
        voice_description \in VoiceChoices}

(* the alternative phrases of the cliches found in VoiceTexts *)
VoiceAlternatives ==
    UNION {UNION {Range(BaseAlternatives(detected[i].pattern)) :
                     i \in 1..Len(detected)} :
              detected \in {VoiceTabulated[text].detected_cliches :
                               text \in VoiceTexts}}

AdaptedTable ==
    [voice_patterns \in VoiceRange |->
        [alt \in VoiceAlternatives |-> AdaptedOutcomes(voice_patterns, alt)]]

(* the loop body is tabulated once over the voices and the alternative    *)
(* phrases of the voice session (VoiceRange, VoiceAlternatives below)      *)
_adapt_to_character_voice(speaker, alternatives) ==
    IF speaker \notin Registered THEN {alternatives}
    ELSE Product([i \in 1..Len(alternatives) |->
                     AdaptedTable[characters[speaker].voice_patterns]
                                 [alternatives[i]]])

(* random.sample(population, k): the lists of k elements at distinct       *)
(* positions of the population, in any order                               *)
RECURSIVE SamplesAt(_, _, _)
SamplesAt(population, positions, k) ==
    IF k = 0 THEN {<<>>}
    ELSE UNION {{<<population[i]>> \o rest :
                    rest \in SamplesAt(population, positions \ {i}, k - 1)} :
                i \in positions}

Samples(population, k) == SamplesAt(population, DOMAIN population, k)

DialogueAlternative(original_phrase, alternatives, character_voice_adjusted, tone_context) ==
    [original_phrase |-> original_phrase,
     alternatives |-> alternatives,
     character_voice_adjusted |-> character_voice_adjusted,
     tone_context |-> tone_context]

(* lines 284-308 of generate_dialogue_alternatives: the lists it can       *)
(* return for the detected cliches, one DialogueAlternative for each       *)
(* detected cliche that has base alternatives                              *)
RECURSIVE AlternativesFor(_, _, _, _)
AlternativesFor(speaker, detected, tone, num_alternatives) ==
    IF detected = <<>> THEN {<<>>}
    ELSE LET base_alternatives == BaseAlternatives(Head(detected).pattern)
             more == AlternativesFor(speaker, Tail(detected), tone,
                                     num_alternatives)
             k == IF num_alternatives < Len(base_alternatives)
                  THEN num_alternatives ELSE Len(base_alternatives)
         IN  IF base_alternatives = <<>> THEN more
             ELSE UNION {
                    {<<DialogueAlternative(Head(detected).original_phrase,
                                           selected_alternatives,
                                           character_adapted, tone)>> \o rest :
                        character_adapted \in
                            _adapt_to_character_voice(speaker,
                                                      selected_alternatives),
                        rest \in more} :
                    selected_alternatives \in Samples(base_alternatives, k)}

(* each run of the voice session makes its registrations and then one call *)
NoCallYet == ret.op \in {"__init__", "add_character"}

(* generate_dialogue_alternatives(speaker, text, num_alternatives), with   *)
(* the lists it builds; transforms_called records the branches taken in    *)
(* _adapt_to_character_voice                                               *)
GenerateAlternatives(speaker, text, num_alternatives) ==
    /\ Idle
    /\ NoCallYet
    /\ \E alternatives \in
           AlternativesFor(speaker, VoiceTabulated[text].detected_cliches,
                           VoiceTabulated[text].tone_context, num_alternatives) :
           ret' = [op |-> "generate_dialogue_alternatives",
                   value |->
                       [speaker |-> speaker,
                        text |-> text,
                        alternatives |-> alternatives,
                        transforms_called |->
                            IF speaker \in Registered
                            THEN TransformsCalled(
                                     characters[speaker].voice_patterns)
                            ELSE <<>>]]
    /\ UNCHANGED <<characters, dialogue_history, scene_context, pc,
                   export_loop, threads>>

(* str.upper() *)
RECURSIVE upper(_)
upper(s) == IF s = "" THEN "" ELSE UpperChar(Head(s)) \o upper(Tail(s))

(* str.replace(old, new), old not empty: every non-overlapping occurrence  *)
(* from the left                                                           *)
RECURSIVE FirstAt(_, _, _)
FirstAt(s, sub, i) ==
    IF i + Len(sub) - 1 > Len(s) THEN 0
    ELSE IF CharAt(s, i) = CharAt(sub, 1) /\ StartsAt(s, sub, i) THEN i
    ELSE FirstAt(s, sub, i + 1)

RECURSIVE ReplaceFrom(_, _, _, _)
ReplaceFrom(s, old, new, i) ==
    LET j == FirstAt(s, old, i) IN
    IF j = 0 THEN SubSeq(s, i, Len(s))
    ELSE SubSeq(s, i, j - 1) \o new \o ReplaceFrom(s, old, new, j + Len(old))

Replace(s, old, new) == ReplaceFrom(s, old, new, 1)

(* Capitalized without the capitalization step *)
CapitalizedNever(original_phrase, replacement) == replacement

(* lines 705-707: the replacement, its first letter made uppercase when    *)
(* the matched phrase starts with an uppercase letter                      *)
Capitalized(original_phrase, replacement) ==
    IF original_phrase # "" /\ IsUpperChar(Head(original_phrase))
    THEN IF Len(replacement) > 1
         THEN UpperChar(Head(replacement)) \o Tail(replacement)
         ELSE upper(replacement)
    ELSE replacement

(* lines 699-709: the cliches replaced one after another, for the version  *)
(* that takes element v (from 1) of every adjusted list                    *)
RECURSIVE ReplaceCliches(_, _, _)
ReplaceCliches(improved_text, alternatives, v) ==
    IF alternatives = <<>> THEN improved_text
    ELSE LET alt == Head(alternatives) IN
         ReplaceCliches(
             IF v <= Len(alt.character_voice_adjusted)
             THEN Replace(improved_text, alt.original_phrase,
                          Capitalized(alt.original_phrase,
                                      alt.character_voice_adjusted[v]))
             ELSE improved_text,
             Tail(alternatives), v)

(* lines 711-714 *)
CleanUp(improved_text) ==
    Strip(SubRuns(SubRuns(improved_text, {"!"}, 2, "!"), Whitespace, 1, " "))

(* range(min(3, max(len(alt.character_voice_adjusted) ...))) *)
VersionsBuilt == 3

VersionCount(alternatives) ==
    LET longest == CHOOSE n \in {Len(alternatives[i].character_voice_adjusted) :
                                    i \in 1..Len(alternatives)} :
                       \A i \in 1..Len(alternatives) :
                           Len(alternatives[i].character_voice_adjusted) <= n
    IN  IF VersionsBuilt < longest THEN VersionsBuilt ELSE longest

ImprovedVersions(original_text, alternatives) ==
    IF alternatives = <<>> THEN <<>>
    ELSE [v \in 1..VersionCount(alternatives) |->
             CleanUp(ReplaceCliches(original_text, alternatives, v))]

(* what each version puts in the place of each phrase *)
Substitutions(alternatives) ==
    IF alternatives = <<>> THEN <<>>
    ELSE [v \in 1..VersionCount(alternatives) |->
             [i \in 1..Len(alternatives) |->
                 [original_phrase |-> alternatives[i].original_phrase,
                  replacement |->
                      Capitalized(alternatives[i].original_phrase,
                                  alternatives[i].character_voice_adjusted[v])]]]

(* suggest_improved_dialogue with its improved versions.  The call asks    *)
(* for the default five alternatives of each cliche; the versions read the *)
(* first VersionsBuilt elements of each list, and those are the elements   *)
(* drawn here.                                                             *)
SuggestImproved(speaker, original_text) ==
    /\ Idle
    /\ NoCallYet
    /\ \E alternatives \in
           AlternativesFor(speaker,
                           VoiceTabulated[original_text].detected_cliches,
                           VoiceTabulated[original_text].tone_context,
                           VersionsBuilt) :
           ret' = [op |-> "suggest_improved_dialogue",
                   value |->
                       [original |-> original_text,
                        speaker |-> speaker,
                        substitutions |-> Substitutions(alternatives),
                        improved_versions |->
                            ImprovedVersions(original_text, alternatives),
                        character_voice_notes |-> _get_voice_guidance(speaker),
                        scene_context_advice |-> _get_scene_context_advice]]
    /\ UNCHANGED <<characters, dialogue_history, scene_context, pc,
                   export_loop, threads>>

VoiceInit ==
    /\ SessionUnused
    /\ ret = [op |-> "__init__", value |-> NoValue]

VoiceNext ==
    \/ \E name \in VoiceNames, voice_description \in VoiceChoices :
           add_character(name, voice_description)
    \/ \E speaker \in Names, text \in VoiceTexts,
          num_alternatives \in 1..MaxAlternatives :
           GenerateAlternatives(speaker, text, num_alternatives)

VoiceSpec == VoiceInit /\ [][VoiceNext]_vars

(* the texts suggest_improved_dialogue is asked to improve, in the         *)
(* session that builds the improved versions                               *)
ImprovedTexts == {"You can't judge a book by its cover.", "I hate you."}

ImprovedNext ==
    \/ \E name \in VoiceNames, voice_description \in VoiceChoices :
           add_character(name, voice_description)
    \/ \E speaker \in Names, text \in ImprovedTexts :
           SuggestImproved(speaker, text)

ImprovedSpec == VoiceInit /\ [][ImprovedNext]_vars

(* the three parameters of a voice lie in [0.3, 0.7], a missing one        *)
(* counting as 0.5                                                         *)
InMiddleBand(voice_patterns) ==
    \A key \in {"formality", "verbosity", "emotion_intensity"} :
        /\ RLeq(Rat(3, 10), VoiceParameter(voice_patterns, key))
        /\ RLeq(VoiceParameter(voice_patterns, key), Rat(7, 10))

(* C12: for a speaker with no profile, and for a registered character      *)
(* whose formality, verbosity and emotion_intensity lie in [0.3, 0.7]      *)
(* (0.5 when missing), character_voice_adjusted equals the raw             *)
(* alternatives element for element; _make_more_formal is called only      *)
(* when formality > 0.7 and _make_more_casual only when formality < 0.3.   *)
MiddleBandIsIdentity ==
    ret.op = "generate_dialogue_alternatives" =>
        LET speaker == ret.value.speaker
            called == Range(ret.value.transforms_called)
        IN  /\ (speaker \notin Registered
                  \/ InMiddleBand(characters[speaker].voice_patterns)) =>
                   \A i \in 1..Len(ret.value.alternatives) :
                       ret.value.alternatives[i].character_voice_adjusted
                           = ret.value.alternatives[i].alternatives
            /\ "_make_more_formal" \in called =>
                   /\ speaker \in Registered
                   /\ RLess(Rat(7, 10),
                            VoiceParameter(characters[speaker].voice_patterns,
                                           "formality"))
            /\ "_make_more_casual" \in called =>
                   /\ speaker \in Registered
                   /\ RLess(VoiceParameter(characters[speaker].voice_patterns,
                                           "formality"),
                            Rat(3, 10))

(* a character registered at the upper limit of the band gets its two      *)
(* alternatives back unchanged                                             *)
MiddleBandWitness ==
    /\ ret.op = "generate_dialogue_alternatives"
    /\ ret.value.speaker \in Registered
    /\ characters[ret.value.speaker].voice_patterns = UpperLimitVoice
    /\ Len(ret.value.alternatives) = 1
    /\ Len(ret.value.alternatives[1].alternatives) = 2
    /\ ret.value.alternatives[1].character_voice_adjusted
           = ret.value.alternatives[1].alternatives

(* C14: in every improved version, the text put in the place of a matched  *)
(* cliche phrase that begins with an uppercase letter begins with an       *)
(* uppercase letter, and the version holds it.                             *)
CapitalizationPreserved ==
    ret.op = "suggest_improved_dialogue" =>
        \A v \in 1..Len(ret.value.substitutions) :
            \A i \in 1..Len(ret.value.substitutions[v]) :
                LET sub == ret.value.substitutions[v][i] IN
                IsUpperChar(CharAt(sub.original_phrase, 1)) =>
                    /\ sub.replacement # ""
                    /\ IsUpperChar(CharAt(sub.replacement, 1))
                    /\ Contains(ret.value.improved_versions[v],
                                CleanUp(sub.replacement))

(* a formal, restrained character: the alternative "looks don't tell the   *)
(* whole story" is made formal, given a prefix, and put in the place of    *)
(* "You can't judge a book by its cover"                                   *)
CapitalizationWitness ==
    /\ ret.op = "suggest_improved_dialogue"
    /\ ret.value.original = "You can't judge a book by its cover."
    /\ ret.value.speaker \in Registered
    /\ characters[ret.value.speaker].voice_patterns = MartinezVoice
    /\ ret.value.improved_versions[2] =
           "It appears that looks do not tell the whole story."

-----------------------------------------------------------------------------
(* The formality transform on its own, with the prefix insertion disabled  *)
(* (random.random() never below the threshold): texts are built one token  *)
(* at a time, with and without separators between the informal words.      *)

MaxFormalTokens == 3

FormalTokens == {"can't", "Sure", "yeah", "OKAY", "isn't", " ", "s"}

FormalResult(text, tokens) ==
    [op |-> "_make_more_formal",
     value |-> [text |-> text, tokens |-> tokens,
                result |-> _make_more_formal(text, None)]]

FormalInit == SessionUnused /\ ret = FormalResult("", 0)

FormalOfLongerText(token) ==
    /\ ret.value.tokens < MaxFormalTokens
    /\ ret' = FormalResult(ret.value.text \o token, ret.value.tokens + 1)
    /\ UNCHANGED <<characters, dialogue_history, scene_context, pc,
                   export_loop, threads>>

FormalNext == \E token \in FormalTokens : FormalOfLongerText(token)

FormalSpec == FormalInit /\ [][FormalNext]_vars

(* C13: with the prefix insertion disabled, applying _make_more_formal to  *)
(* its own output changes nothing.                                         *)
FormalIsIdempotent ==
    _make_more_formal(ret.value.result, None) = ret.value.result

FormalIdempotentWitness ==
    /\ ret.value.text = "Sure can't"
    /\ ret.value.result = "certainly cannot"

-----------------------------------------------------------------------------
(* The formality step applied again and again to its own output, with      *)
(* every outcome of its random draws.                                      *)

MaxApplications == 3

MarkerTexts ==
    {"find a new angle", "looks don't tell the whole story",
     "Perhaps we cannot", "well, it is not so", "I believe so"}

MarkerInit ==
    /\ SessionUnused
    /\ \E text \in MarkerTexts :
           ret = [op |-> "__init__", value |-> [text |-> text, applications |-> 0]]

ApplyFormal(prefix) ==
    /\ ret.op \in {"__init__", "_make_more_formal"}
    /\ ret.value.applications < MaxApplications
    /\ ret' = [op |-> "_make_more_formal",
               value |-> [text |-> _make_more_formal(ret.value.text, prefix),
                          applications |-> ret.value.applications + 1]]
    /\ UNCHANGED <<characters, dialogue_history, scene_context, pc,
                   export_loop, threads>>

ApplyCasual(marker) ==
    /\ ret.op \in {"__init__", "_make_more_casual"}
    /\ ret.value.applications < MaxApplications
    /\ ret' = [op |-> "_make_more_casual",
               value |-> [text |-> _make_more_casual(ret.value.text, marker),
                          applications |-> ret.value.applications + 1]]
    /\ UNCHANGED <<characters, dialogue_history, scene_context, pc,
                   export_loop, threads>>

MarkerNext ==
    \/ \E prefix \in {None} \cup {Some(formal_prefixes[k]) :
                                     k \in 1..Len(formal_prefixes)} :
           ApplyFormal(prefix)
    \/ \E marker \in {None} \cup {Some(casual_markers[k]) :
                                     k \in 1..Len(casual_markers)} :
           ApplyCasual(marker)

MarkerSpec == MarkerInit /\ [][MarkerNext]_vars

(* text starts with two of the markers, the second in any case (a marker   *)
(* is prepended to the lower-cased text)                                   *)
StartsWithTwo(text, markers) ==
    \E j, k \in 1..Len(markers) :
        StartsAt(lower(text), lower(markers[j] \o " " \o markers[k]), 1)

(* C19: however often the formality step is applied, and whatever its      *)
(* random draws, the text never starts with two discourse markers.         *)
MarkersNeverStack ==
    /\ ~StartsWithTwo(ret.value.text, formal_prefixes)
    /\ ~StartsWithTwo(ret.value.text, casual_markers)

(* The casual step by itself keeps the guarantee: its guard covers each of *)
(* its markers.                                                            *)
CasualMarkersNeverStack ==
    ret.op = "_make_more_casual" =>
        ~StartsWithTwo(ret.value.text, casual_markers)

-----------------------------------------------------------------------------
(* Further properties of the single-threaded session (Spec).               *)

(* C15: a summary that reports dialogue_count <= 1 reports                 *)
(* consistency_score 1.0, whatever operations preceded the query.          *)
FewLinesScoreOne ==
    (/\ ret.op = "get_character_voice_summary"
     /\ "dialogue_count" \in DOMAIN ret.value
     /\ ret.value.dialogue_count <= 1)
        => ret.value.consistency_score = RInt(1)

(* What does hold: the score is 1.0 when fewer than two lines of the       *)
(* history carry the speaker's name.                                       *)
FewHistoryLinesScoreOne ==
    (/\ ret.op = "get_character_voice_summary"
     /\ "dialogue_count" \in DOMAIN ret.value
     /\ Len(LinesOf(dialogue_history, ret.value.name)) <= 1)
        => ret.value.consistency_score = RInt(1)

(* The session in which lines of every kind of tone are analysed with no   *)
(* scene, in a scene of tension 7 and in a scene of tension 8.             *)
SceneNames == {"Sarah"}

SceneNext ==
    \/ \E name \in SceneNames, voice_description \in VoiceDescriptions :
           add_character(name, voice_description)
    \/ \E s \in Scenes :
           set_scene_context(s.setting, s.mood, s.tension, s.characters,
                             s.plot_points)
    \/ \E speaker \in SceneNames, text \in SceneTexts, context \in Contexts :
           analyze_dialogue_line(speaker, text, context)

SceneSpec == Init /\ [][SceneNext]_vars

HasKind(suggestions, kind) ==
    \E i \in 1..Len(suggestions) : suggestions[i].kind = kind

(* C16: the suggestions of analyze_dialogue_line contain the tone-mismatch *)
(* advisory exactly when a scene context is set, its tension_level is      *)
(* above 7 and the tone of the line is "happy" or "romantic".              *)
ToneMismatchExactly ==
    ret.op = "analyze_dialogue_line" =>
        (HasKind(ret.value.suggestions, "tone_mismatch")
            <=> /\ scene_context # None
                /\ scene_context[1].tension_level > 7
                /\ ret.value.emotional_tone \in {"happy", "romantic"})

ToneMismatchWitness ==
    /\ ret.op = "analyze_dialogue_line"
    /\ scene_context # None
    /\ scene_context[1].tension_level = 8
    /\ ret.value.emotional_tone = "romantic"
    /\ HasKind(ret.value.suggestions, "tone_mismatch")

(* tension 8 and an angry line: no advisory *)
AngryLineWitness ==
    /\ ret.op = "analyze_dialogue_line"
    /\ scene_context # None
    /\ scene_context[1].tension_level = 8
    /\ ret.value.emotional_tone = "angry"
    /\ ~HasKind(ret.value.suggestions, "tone_mismatch")

-----------------------------------------------------------------------------
(* The queries that can be asked too early: a summary or voice guidance    *)
(* for a speaker who is not registered, a context-aware suggestion before  *)
(* set_scene_context.                                                      *)

NoSceneError == [error |-> "No scene context set. Use set_scene_context() first."]

ContextAwareSuggestion(speaker) ==
    [speaker |-> speaker,
     context_factors |-> <<>>,
     suggested_directions |->
         IF scene_context[1].tension_level > 7
         THEN <<"high_tension">> ELSE <<>>,
     tone_recommendations |->
         (IF scene_context[1].tension_level > 7
          THEN <<"urgent, intense, or confrontational">> ELSE <<>>)
         \o (IF scene_context[1].mood = "romantic"
             THEN <<"intimate", "vulnerable", "tender">> ELSE <<>>),
     pacing_advice |->
         IF /\ speaker \in Registered
            /\ High(VoiceParameter(characters[speaker].voice_patterns,
                                   "formality"))
         THEN <<"formal">> ELSE <<>>,
     voice_guidance |-> _get_voice_guidance(speaker)]

(* generate_context_aware_suggestion that falls back on a default scene    *)
(* when none is set                                                        *)
ContextAwareWithDefaultScene(speaker) ==
    /\ Idle
    /\ scene_context' =
           IF scene_context = None
           THEN Some(SceneContext("", "neutral", 5, <<>>, None))
           ELSE scene_context
    /\ ret' = [op |-> "generate_context_aware_suggestion",
               value |-> [speaker |-> speaker,
                          voice_guidance |-> _get_voice_guidance(speaker)]]
    /\ UNCHANGED <<characters, dialogue_history, pc, export_loop, threads>>

generate_context_aware_suggestion(speaker) ==
    /\ Idle
    /\ ret' = [op |-> "generate_context_aware_suggestion",
               value |-> IF scene_context = None THEN NoSceneError
                         ELSE ContextAwareSuggestion(speaker)]
    /\ UNCHANGED <<characters, dialogue_history, scene_context, pc,
                   export_loop, threads>>

QueryTexts == {"I hate you."}

QueryVoices == {None, Some(MartinezVoice)}

QueryNext ==
    \/ \E name \in Names, voice_description \in QueryVoices :
           add_character(name, voice_description)
    \/ \E s \in Scenes :
           set_scene_context(s.setting, s.mood, s.tension, s.characters,
                             s.plot_points)
    \/ \E speaker \in Names, text \in QueryTexts, context \in Contexts :
           analyze_dialogue_line(speaker, text, context)
    \/ \E speaker \in Names, text \in SuggestTexts :
           suggest_improved_dialogue(speaker, text)
    \/ \E speaker \in Names : get_character_voice_summary(speaker)
    \/ \E speaker \in Names : generate_context_aware_suggestion(speaker)

QuerySpec == Init /\ [][QueryNext]_vars

IsError(value) == "error" \in DOMAIN value

NotFoundWitness ==
    /\ ret.op = "get_character_voice_summary"
    /\ IsError(ret.value)
    /\ LinesOf(dialogue_history, ret.value.name) # <<>>

-----------------------------------------------------------------------------
(* Sessions that analyse lines in which a cliche is repeated.              *)

ClicheNext ==
    \/ \E name \in Names, voice_description \in VoiceDescriptions :
           add_character(name, voice_description)
    \/ \E speaker \in Names, text \in ClicheTexts, context \in Contexts :
           analyze_dialogue_line(speaker, text, context)

ClicheSpec == Init /\ [][ClicheNext]_vars

(* the number of entries of a list of detections that are for the pattern *)
Occurrences(detected, pattern) ==
    Cardinality({i \in 1..Len(detected) : detected[i].pattern = pattern})

(* C18: cliches_detected of analyze_dialogue_line has, for each pattern,   *)
(* as many entries as the pattern has occurrences in the text (the matches *)
(* that generating the alternatives finds), so that its length is the      *)
(* number of those matches.                                                *)
EveryOccurrenceReported ==
    ret.op = "analyze_dialogue_line" =>
        /\ \A k \in 1..Len(cliche_patterns) :
               Occurrences(ret.value.cliches_detected, cliche_patterns[k])
                   = Occurrences(Tabulated[ret.value.text].detected_cliches,
                                 cliche_patterns[k])
        /\ Len(ret.value.cliches_detected)
               = Len(Tabulated[ret.value.text].detected_cliches)

(* What does hold: cliches_detected has one entry for each pattern that    *)
(* occurs at all, in the order of the pattern table.                       *)
EveryPatternReportedOnce ==
    ret.op = "analyze_dialogue_line" =>
        \A k \in 1..Len(cliche_patterns) :
            Occurrences(ret.value.cliches_detected, cliche_patterns[k])
                = IF Occurrences(Tabulated[ret.value.text].detected_cliches,
                                 cliche_patterns[k]) > 0
                  THEN 1 ELSE 0

-----------------------------------------------------------------------------
(* Sessions of one character whose lines differ in sentence length.        *)

DriftNext ==
    \/ \E name \in SceneNames, voice_description \in VoiceDescriptions :
           add_character(name, voice_description)
    \/ \E speaker \in SceneNames, text \in Texts, context \in Contexts :
           analyze_dialogue_line(speaker, text, context)

DriftSpec == Init /\ [][DriftNext]_vars

(* C20: an analyze_dialogue_line call checks the consistency of the line   *)
(* against the speaker's profile as it was before the call, then appends   *)
(* the line to the history and writes the profile; the first analysed line *)
(* of a character gives no drift warning.                                  *)
AnalysisReadsEarlierProfile ==
    [][(ret'.op = "analyze_dialogue_line"
            /\ dialogue_history' # dialogue_history) =>
          \A speaker \in SceneNames, text \in Texts :
              (ret'.value.speaker = speaker /\ ret'.value.text = text) =>
                  /\ ret'.value.character_consistency
                         = _check_character_consistency(speaker, text)
                  /\ Len(dialogue_history') = Len(dialogue_history) + 1
                  /\ SubSeq(dialogue_history', 1, Len(dialogue_history))
                         = dialogue_history
                  /\ dialogue_history'[Len(dialogue_history')].speaker = speaker
                  /\ dialogue_history'[Len(dialogue_history')].text = text
                  /\ characters'
                         = _update_character_patterns(characters, speaker, text)
                  /\ (\/ LinesOf(dialogue_history, speaker) = <<>>
                      \/ (speaker \in Registered
                              /\ characters[speaker].dialogue_count = 0))
                         => ret'.value.character_consistency
                                .voice_drift_warnings = <<>>]_vars

(* the second line of a character gives a warning: it is compared with the *)
(* first line alone                                                        *)
DriftWarningWitness ==
    /\ ret.op = "analyze_dialogue_line"
    /\ ret.value.character_consistency.voice_drift_warnings # <<>>
    /\ characters[ret.value.speaker].dialogue_count = 2

(* a first line of nine- and six-word sentences, and no warning *)
FirstLineWitness ==
    /\ ret.op = "analyze_dialogue_line"
    /\ ret.value.sentence_count = 2
    /\ ret.value.speaker \in Registered
    /\ characters[ret.value.speaker].dialogue_count = 1
    /\ Len(dialogue_history) = 1
    /\ ret.value.character_consistency.voice_drift_warnings = <<>>

-----------------------------------------------------------------------------
(* The pacing analysis of texts of several sentences: a text is built one  *)
(* word at a time, and a sentence is closed by a terminal character.       *)

MaxRhythmWords == 4

MaxRhythmSentences == 3

RhythmWords == {"a", "so"}

RhythmClosers == {".", "?"}

RhythmResult(text) ==
    [op |-> "_analyze_pacing",
     value |-> [text |-> text, pacing_analysis |-> _analyze_pacing(text)]]

RhythmInit == SessionUnused /\ ret = RhythmResult("")

RhythmOfOneMoreWord(word) ==
    /\ WordCount(ret.value.text) < MaxRhythmWords
    /\ EndsSentence(ret.value.text) =>
           Len(SentenceLengths(ret.value.text)) < MaxRhythmSentences
    /\ ret' = RhythmResult(IF ret.value.text = "" THEN word
                           ELSE ret.value.text \o " " \o word)
    /\ UNCHANGED <<characters, dialogue_history, scene_context, pc,
                   export_loop, threads>>

RhythmOfClosedSentence(closer) ==
    /\ ret.value.text # ""
    /\ ~EndsSentence(ret.value.text)
    /\ ret' = RhythmResult(ret.value.text \o closer)
    /\ UNCHANGED <<characters, dialogue_history, scene_context, pc,
                   export_loop, threads>>

RhythmNext ==
    \/ \E word \in RhythmWords : RhythmOfOneMoreWord(word)
    \/ \E closer \in RhythmClosers : RhythmOfClosedSentence(closer)

RhythmSpec == RhythmInit /\ [][RhythmNext]_vars

(* C21: the rhythm_variety of pacing_analysis is the number of distinct    *)
(* sentence lengths divided by the sentence count, 0 for a text with no    *)
(* sentence, and so never above 1.                                         *)
RhythmVarietyIsRatio ==
    LET lengths == SentenceLengths(ret.value.text)
        rhythm_variety == ret.value.pacing_analysis.rhythm_variety
    IN  /\ RInt(rhythm_variety) =
               IF lengths = <<>> THEN RInt(0)
               ELSE Rat(Cardinality(Range(lengths)), Len(lengths))
        /\ rhythm_variety <= 1

(* What does hold: rhythm_variety is the number of distinct sentence       *)
(* lengths itself, at most the sentence count and 0 with no sentence.      *)
RhythmVarietyIsCount ==
    LET lengths == SentenceLengths(ret.value.text)
        rhythm_variety == ret.value.pacing_analysis.rhythm_variety
    IN  /\ rhythm_variety = Cardinality(Range(lengths))
        /\ rhythm_variety <= ret.value.pacing_analysis.sentence_count
        /\ lengths = <<>> => rhythm_variety = 0

-----------------------------------------------------------------------------
(* The range of the consistency score in the single-threaded session.      *)

(* 1 - (unique_tones / len(tones)) * 0.5, before max and min are applied *)
UnclampedConsistency(character_lines) ==
    RSub(RInt(1),
         RMul(Rat(Cardinality({character_lines[i].emotional_tone :
                                  i \in 1..Len(character_lines)}),
                  Len(character_lines)),
              Half))

(* C22: in every reachable state the consistency_score that the summary of *)
(* a registered character reports lies between 0.5 and 1.0, and the clamp  *)
(* to [0, 1] leaves the computed value as it is.                           *)
ConsistencyBetweenHalfAndOne ==
    \A name \in Registered :
        LET character_lines == LinesOf(dialogue_history, name)
            score == VoiceSummary(name).consistency_score
        IN  /\ RLeq(Half, score)
            /\ RLeq(score, RInt(1))
            /\ Len(character_lines) >= 2 =>
                   score = UnclampedConsistency(character_lines)

(* a registered character whose three lines have three tones: the score is *)
(* at its lower limit                                                      *)
ConsistencyAtHalfWitness ==
    \E name \in Registered :
        /\ Len(LinesOf(dialogue_history, name)) = 3
        /\ VoiceSummary(name).consistency_score = Half

=============================================================================
